---- MODULE Spec2Model ----
(***************************************************************************)
(* SmoothScope (carlozaiana/Gl_3): the level queue between the audio       *)
(* thread (SmoothScopeAudioProcessor::processBlock -> pushToFifo) and the  *)
(* message thread (SmoothScopeAudioProcessorEditor::timerCallback), the    *)
(* two-tier history the timer fills, and the zoom state / render-mode      *)
(* selection of the editor.                                                *)
(*                                                                         *)
(* Units.  Level samples are floats in the source; the model carries them  *)
(* as integers in units of 0.5f (so 0.5f is 1, 1.0f is 2, 10.0f is 20).    *)
(* zoomX and zoomY are floats; the model carries them as integers in units *)
(* of 1e-6 (so 0.0001f is 100, 0.05f is 50000, 1.0f is 1000000, 50.0f is   *)
(* 50000000).  Pixel x coordinates are carried in the same unit of 1e-6.   *)
(* Float rounding is not modelled: products and quotients are exact up to  *)
(* the fixed point.                                                        *)
(*                                                                         *)
(* Scaling.  historySize (1048576 in PluginEditor.h:24) and                *)
(* decimationFactor (64 in PluginEditor.h:31) are scaled down so that ring *)
(* wrap-around and overview commits happen within the explored runs;       *)
(* overviewSize keeps the source's definition historySize/decimationFactor.*)
(* fifoSize is declared in PluginProcessor.h, which is not among the       *)
(* sources; it is scaled the same way.  The editor's width (800 after      *)
(* construction, 300..2000 by the resize limits) is scaled with them.      *)
(* The variable build holds the tier sizes the build was compiled with:    *)
(* the scaled ones above in the specifications of the two threads, other   *)
(* ones in the specification of whole render sessions.                     *)
(***************************************************************************)
EXTENDS Integers, Sequences, FiniteSets, TLC

\* ---------------------------------------------------------------- bounds
fifoSize == 3
historySize == 4
decimationFactor == 2
\* processBlock calls explored in one run
MaxPushes == 6
\* PluginEditor.cpp:12, setSize (800, 400): the editor's width, scaled
editorWidth == 6

\* ------------------------------------------------------- program constants
\* PluginEditor.h:32
overviewSize == historySize \div decimationFactor
\* PluginEditor.cpp:52 (and the member initialiser PluginEditor.h:37): 0.0f
MaxSeed == 0
\* PluginEditor.cpp:53: 10.0f
MinSeed == 20

\* Level values the audio engine hands to pushToFifo: the ends of the
\* expected input range [0,1].
Levels == {0, 2}

VARIABLES
    \* --- SmoothScopeAudioProcessor (shared between the two threads)
    fifoBuffer,             \* [0..fifoSize-1 -> value]
    fifoWriteIndex,         \* std::atomic<int>, written by the producer only
    fifoReadIndex,          \* std::atomic<int>, written by the consumer only
    \* --- audio thread: processBlock / pushToFifo position and locals
    pcP, pVal, pWrite,      \* locals are cleared when the call returns
    \* --- message thread: timerCallback position and locals
    pcC, currentRead, currentWrite, val, newData,
    \* --- SmoothScopeAudioProcessorEditor members
    historyBuffer, historyWriteIndex,
    overviewBuffer, overviewWriteIndex,
    currentOverviewMin, currentOverviewMax, currentOverviewCounter,
    zoomX, zoomY,
    width,                  \* getLocalBounds().getWidth(), in pixels
    build,                  \* historySize, decimationFactor, overviewSize of the build
    repaintPending,         \* Component::repaint() was called, paint not yet run
    drawnMode,              \* the mode the last paint drew and labelled ("none": not painted)
    drawnAt,                \* the zoomX the last paint read
    frame,                  \* what the last paint read and the vertices it emitted
    \* --- history variables of the verification (not program state)
    stream,                 \* "levels": any values of Levels; "ramp": 0,1,2,...;
                            \* "steady": the level 0.5 in every block
    pushLimit,              \* processBlock calls the run makes
    produced,               \* processBlock calls so far
    accepted,               \* values published by pushToFifo, in order
    popped,                 \* values read by the drain loop (line 33), in order
    appended,               \* values written to historyBuffer (line 39), in order
    committed,              \* overview entries committed (line 49) so far
    tickAccepted, tickPopped,   \* Len(accepted), Len(popped) at the tick's start
    lastTickRepaint,        \* the last finished tick called repaint()
    lastDrop,               \* the last pushToFifo call returned without storing
    scrolls,                \* mouseWheelMove events so far
    lastWheel,              \* the last wheel event and the zoom it found
    gesture                 \* "free", or the wheel events start with a run: "out", "in"

queueVars == <<fifoBuffer, fifoWriteIndex, fifoReadIndex>>
prodVars == <<pcP, pVal, pWrite, produced, accepted, lastDrop>>
consVars == <<pcC, currentRead, currentWrite, val, newData>>
histVars == <<historyBuffer, historyWriteIndex, overviewBuffer, overviewWriteIndex,
              currentOverviewMin, currentOverviewMax, currentOverviewCounter>>
viewVars == <<zoomX, zoomY, width, build, drawnMode, drawnAt, frame, scrolls, lastWheel,
              gesture, pushLimit>>
ghostVars == <<stream, popped, appended, committed, tickAccepted, tickPopped,
               lastTickRepaint>>
vars == <<queueVars, prodVars, consVars, histVars, viewVars, repaintPending, ghostVars>>

\* ------------------------------------------------------------- ring helpers
\* PluginEditor.h:56: while (idx < 0) idx += size;
RECURSIVE WrapUp(_, _)
WrapUp(idx, size) == IF idx < 0 THEN WrapUp(idx + size, size) ELSE idx

\* PluginEditor.h:57: while (idx >= size) idx -= size;
RECURSIVE WrapDown(_, _)
WrapDown(idx, size) == IF idx >= size THEN WrapDown(idx - size, size) ELSE idx

\* A lookup that forgets the "- 1": samplesAgo 0 is the slot written next.
getSampleOffByOne(buffer, writeIndex, samplesAgo) ==
    LET size == Cardinality(DOMAIN buffer)
        idx == writeIndex - samplesAgo
    IN buffer[WrapDown(WrapUp(idx, size), size)]

\* PluginEditor.h:54-57: the slot getSample dereferences
PhysicalIndex(size, writeIndex, samplesAgo) ==
    WrapDown(WrapUp(writeIndex - 1 - samplesAgo, size), size)

\* PluginEditor.h:51-59.  Buffers are functions on 0..size-1.
getSample(buffer, writeIndex, samplesAgo) ==
    LET size == Cardinality(DOMAIN buffer)
    IN buffer[PhysicalIndex(size, writeIndex, samplesAgo)]

\* A drain loop that advances the read index by two slots.
NextReadSkip(cr) == (cr + 2) % fifoSize

\* PluginEditor.cpp:35
NextRead(cr) == (cr + 1) % fifoSize

\* pushToFifo: the slot after the one being written
NextWrite(cw) == (cw + 1) % fifoSize

\* A ring index that advances by two slots.
NextIndexSkip(idx, size) == (idx + 2) % size

\* PluginEditor.cpp:40 and 50
NextIndex(idx, size) == (idx + 1) % size

\* PluginEditor.cpp:43
AccMax(cur, v) == IF v > cur THEN v ELSE cur

\* A running minimum written with the comparison of the running maximum.
AccMinAsMax(cur, v) == IF v > cur THEN v ELSE cur

\* PluginEditor.cpp:44
AccMin(cur, v) == IF v < cur THEN v ELSE cur

\* A window test that lets the counter reach decimationFactor.
WindowFullLate(cnt) == cnt > build.decimationFactor

\* PluginEditor.cpp:47
WindowFull(cnt) == cnt >= build.decimationFactor

\* The member initialiser of currentOverviewMin: its declaration is not in the
\* PluginEditor.h at hand; the accumulator starts at the min seed.
currentOverviewMinInit == MinSeed

\* ------------------------------------------------------------------- Init
\* zoomX = 5.0f, zoomY = 1.0f (PluginEditor.h:41-42), in units of 1e-6
zoomXInit == 5000000
zoomYInit == 1000000

\* The tier sizes of a build: PluginEditor.h:24, 31, 32
Build(size, factor) ==
    [historySize |-> size, decimationFactor |-> factor, overviewSize |-> size \div factor]

\* Nothing painted yet.
NoFrame == [reads |-> [tier |-> "none", size |-> 0, writeIndex |-> 0, samplesAgo |-> {}],
            pointsMax |-> <<>>, pointsMin |-> <<>>, path |-> <<>>,
            scans |-> <<>>]

\* The state after the two constructors of a build b in a window w pixels
\* wide, the zoom left open; the run makes limit processBlock calls.
Constructed(b, w, limit) ==
    /\ build = b
    /\ width = w
    /\ pushLimit = limit
    /\ frame = NoFrame
    /\ fifoBuffer = [i \in 0..(fifoSize - 1) |-> 0]
    /\ fifoWriteIndex = 0
    /\ fifoReadIndex = 0
    /\ pcP = "idle" /\ pVal = 0 /\ pWrite = 0
    /\ pcC = "idle" /\ currentRead = 0 /\ currentWrite = 0 /\ val = 0
    /\ newData = FALSE
    /\ historyBuffer = [i \in 0..(b.historySize - 1) |-> 0]
    /\ historyWriteIndex = 0
    /\ overviewBuffer = [i \in 0..(b.overviewSize - 1) |-> [min |-> 0, max |-> 0]]
    /\ overviewWriteIndex = 0
    /\ currentOverviewMin = currentOverviewMinInit
    /\ currentOverviewMax = 0
    /\ currentOverviewCounter = 0
    /\ repaintPending = FALSE
    /\ drawnMode = "none" /\ drawnAt = 0
    /\ scrolls = 0
    /\ lastWheel = [deltaY |-> 0, mod |-> FALSE, zoomX |-> 0, zoomY |-> 0]
    /\ produced = 0
    /\ accepted = <<>> /\ popped = <<>> /\ appended = <<>>
    /\ committed = 0
    /\ tickAccepted = 0 /\ tickPopped = 0
    /\ lastTickRepaint = FALSE
    /\ lastDrop = FALSE

\* The scaled build, fed any levels or the ramp.
InitAudio ==
    /\ Constructed(Build(historySize, decimationFactor), editorWidth, MaxPushes)
    /\ stream \in {"levels", "ramp"}

Init == InitAudio /\ zoomX = zoomXInit /\ zoomY = zoomYInit /\ gesture = "free"

\* ------------------------------------------------------------ audio thread
\* The level the audio engine computes for the block (lines 23-29): any level
\* of the input range, or, for the ramp stream, the call's number.
BlockLevels ==
    IF stream = "ramp" THEN {produced} ELSE IF stream = "steady" THEN {1} ELSE Levels

\* processBlock, up to the call of pushToFifo (line 31)
ProcessBlock ==
    /\ pcP = "idle"
    /\ produced < pushLimit
    /\ \E rms \in BlockLevels : pVal' = rms
    /\ produced' = produced + 1
    /\ pcP' = "check"
    /\ UNCHANGED <<queueVars, pWrite, accepted, lastDrop, consVars, histVars,
                   viewVars, repaintPending, ghostVars>>

\* A push without the full test: it overwrites the oldest unread slot.
PushCheckOverwrite ==
    /\ pcP = "check"
    /\ pcP' = "write" /\ lastDrop' = lastDrop /\ pWrite' = fifoWriteIndex
    /\ pVal' = pVal
    /\ UNCHANGED <<queueVars, produced, accepted, consVars, histVars,
                   viewVars, repaintPending, ghostVars>>

\* pushToFifo: load the write index, test the slot after it against the
\* consumer's read index; full: drop the sample and return.
PushCheck ==
    /\ pcP = "check"
    /\ IF NextWrite(fifoWriteIndex) = fifoReadIndex
          THEN pcP' = "idle" /\ lastDrop' = TRUE /\ pWrite' = 0 /\ pVal' = 0
          ELSE pcP' = "write" /\ lastDrop' = lastDrop /\ pWrite' = fifoWriteIndex
                 /\ pVal' = pVal
    /\ UNCHANGED <<queueVars, produced, accepted, consVars, histVars,
                   viewVars, repaintPending, ghostVars>>

\* pushToFifo: fifoBuffer[currentWrite] = value
PushWrite ==
    /\ pcP = "write"
    /\ fifoBuffer' = [fifoBuffer EXCEPT ![pWrite] = pVal]
    /\ pcP' = "publish"
    /\ UNCHANGED <<fifoWriteIndex, fifoReadIndex, pVal, pWrite, produced, accepted,
                   lastDrop, consVars, histVars, viewVars, repaintPending, ghostVars>>

\* pushToFifo: fifoWriteIndex.store(nextWrite, release)
PushPublish ==
    /\ pcP = "publish"
    /\ fifoWriteIndex' = NextWrite(pWrite)
    /\ accepted' = Append(accepted, pVal)
    /\ lastDrop' = FALSE
    /\ pcP' = "idle" /\ pWrite' = 0 /\ pVal' = 0
    /\ UNCHANGED <<fifoBuffer, fifoReadIndex, produced, consVars,
                   histVars, viewVars, repaintPending, ghostVars>>

\* ---------------------------------------------------------- message thread
\* timerCallback entry, line 24
TimerStart ==
    /\ pcC = "idle"
    /\ newData' = FALSE
    /\ pcC' = "loadRead"
    /\ tickAccepted' = Len(accepted)
    /\ tickPopped' = Len(popped)
    /\ UNCHANGED <<queueVars, prodVars, currentRead, currentWrite, val, histVars,
                   viewVars, repaintPending, stream, popped, appended, committed,
                   lastTickRepaint>>

\* line 28
LoadRead ==
    /\ pcC = "loadRead"
    /\ currentRead' = fifoReadIndex
    /\ pcC' = "loadWrite"
    /\ UNCHANGED <<queueVars, prodVars, currentWrite, val, newData, histVars,
                   viewVars, repaintPending, ghostVars>>

\* A drain loop that releases the slot (lines 35-36) before it reads it.
LoadWriteReleaseFirst ==
    /\ pcC = "loadWrite"
    /\ currentWrite' = fifoWriteIndex
    /\ IF currentRead = fifoWriteIndex
          THEN pcC' = "finish" /\ fifoReadIndex' = fifoReadIndex
          ELSE pcC' = "readSlot" /\ fifoReadIndex' = NextRead(currentRead)
    /\ UNCHANGED <<fifoBuffer, fifoWriteIndex, prodVars, currentRead, val, newData,
                   histVars, viewVars, repaintPending, ghostVars>>

\* A callback that takes one sample per tick.
LoadWriteOnePerTick ==
    /\ pcC = "loadWrite"
    /\ currentWrite' = fifoWriteIndex
    /\ pcC' = IF currentRead = fifoWriteIndex \/ newData THEN "finish" ELSE "readSlot"
    /\ UNCHANGED <<queueVars, prodVars, currentRead, val, newData, histVars,
                   viewVars, repaintPending, ghostVars>>

\* lines 29-31
LoadWrite ==
    /\ pcC = "loadWrite"
    /\ currentWrite' = fifoWriteIndex
    /\ pcC' = IF currentRead = fifoWriteIndex THEN "finish" ELSE "readSlot"
    /\ UNCHANGED <<queueVars, prodVars, currentRead, val, newData, histVars,
                   viewVars, repaintPending, ghostVars>>

\* The producer is between its full test and its publication, about to write
\* the slot the consumer is about to read: the two accesses are unordered.
Racing == pcP = "write" /\ pcC = "readSlot" /\ pWrite = currentRead

\* line 33: a non-atomic read; racing with the producer's write it may yield
\* the old value, the new one or any other.
ReadSlot ==
    /\ pcC = "readSlot"
    /\ \E v \in (IF Racing THEN Levels \cup {fifoBuffer[currentRead], pVal}
                           ELSE {fifoBuffer[currentRead]}) :
          /\ val' = v
          /\ popped' = Append(popped, v)
    /\ pcC' = "storeRead"
    /\ UNCHANGED <<queueVars, prodVars, currentRead, currentWrite, newData, histVars,
                   viewVars, repaintPending, stream, appended, committed,
                   tickAccepted, tickPopped, lastTickRepaint>>

\* A release that also clears the slot it hands back.
StoreReadClearingSlot ==
    /\ pcC = "storeRead"
    /\ fifoReadIndex' = NextRead(currentRead)
    /\ fifoBuffer' = [fifoBuffer EXCEPT ![currentRead] = 0]
    /\ pcC' = "append"
    /\ UNCHANGED <<fifoWriteIndex, prodVars, currentRead, currentWrite,
                   val, newData, histVars, viewVars, repaintPending, ghostVars>>

\* lines 35-36
StoreRead ==
    /\ pcC = "storeRead"
    /\ fifoReadIndex' = NextRead(currentRead)
    /\ pcC' = "append"
    /\ UNCHANGED <<fifoBuffer, fifoWriteIndex, prodVars, currentRead, currentWrite,
                   val, newData, histVars, viewVars, repaintPending, ghostVars>>

\* lines 38-57
AppendHistory ==
    /\ pcC = "append"
    /\ historyBuffer' = [historyBuffer EXCEPT ![historyWriteIndex] = val]
    /\ historyWriteIndex' = NextIndex(historyWriteIndex, build.historySize)
    /\ LET mx == AccMax(currentOverviewMax, val)
           mn == AccMin(currentOverviewMin, val)
           cnt == currentOverviewCounter + 1
       IN IF WindowFull(cnt)
             THEN /\ overviewBuffer' = [overviewBuffer EXCEPT
                                          ![overviewWriteIndex] = [min |-> mn, max |-> mx]]
                  /\ overviewWriteIndex' = NextIndex(overviewWriteIndex, build.overviewSize)
                  /\ currentOverviewMax' = MaxSeed
                  /\ currentOverviewMin' = MinSeed
                  /\ currentOverviewCounter' = 0
                  /\ committed' = committed + 1
             ELSE /\ currentOverviewMax' = mx
                  /\ currentOverviewMin' = mn
                  /\ currentOverviewCounter' = cnt
                  /\ UNCHANGED <<overviewBuffer, overviewWriteIndex, committed>>
    /\ newData' = TRUE
    /\ appended' = Append(appended, val)
    /\ pcC' = "loadRead"
    /\ UNCHANGED <<queueVars, prodVars, currentRead, currentWrite, val, viewVars,
                   repaintPending, stream, popped, tickAccepted, tickPopped,
                   lastTickRepaint>>

\* A callback that repaints on every tick.
TimerFinishAlwaysRepaint ==
    /\ pcC = "finish"
    /\ repaintPending' = TRUE
    /\ lastTickRepaint' = TRUE
    /\ pcC' = "idle"
    /\ currentRead' = 0 /\ currentWrite' = 0 /\ val' = 0 /\ newData' = FALSE
    /\ UNCHANGED <<queueVars, prodVars, histVars, viewVars, stream, popped,
                   appended, committed, tickAccepted, tickPopped>>

\* lines 60-61, and the return
TimerFinish ==
    /\ pcC = "finish"
    /\ repaintPending' = (repaintPending \/ newData)
    /\ lastTickRepaint' = newData
    /\ pcC' = "idle"
    /\ currentRead' = 0 /\ currentWrite' = 0 /\ val' = 0 /\ newData' = FALSE
    /\ UNCHANGED <<queueVars, prodVars, histVars, viewVars, stream, popped,
                   appended, committed, tickAccepted, tickPopped>>

\* ------------------------------------------------------ zoom and rendering
\* PluginEditor.h:45-48, in units of 1e-6
minZoomX == 100
maxZoomX == 50000000
minZoomY == 500000
maxZoomY == 10000000

\* PluginEditor.cpp:76: useOverview = (zoomX < 0.05f)
overviewZoom == 50000
\* PluginEditor.cpp:78: zoomX >= 1.0f
rawZoom == 1000000

\* wheel events explored in one run, after the gesture's opening run
MaxScrolls == 4
\* the opening run of a gesture: scroll-outs ("out"), scroll-ins ("in")
OutRun == 100
InRun == 22
\* zoom values probed on each side of a mode threshold
Spread == 12

\* juce::jlimit (lowerLimit, upperLimit, valueToConstrain), as called at
\* lines 271 and 280
jlimit(lo, hi, v) == IF v < lo THEN lo ELSE IF hi < v THEN hi ELSE v

\* lines 277-278: zoomX *= 1.1f or 0.9f, in fixed point
Scaled(z, scrollAmount) ==
    IF scrollAmount > 0 THEN (z * 11) \div 10 ELSE (z * 9) \div 10

\* A wheel handler that scales zoomX and forgets to clamp it.
zoomXAfterNoClamp(z, scrollAmount) ==
    IF scrollAmount # 0 THEN Scaled(z, scrollAmount) ELSE z

\* lines 275-280: the zoomX a wheel event without modifier leaves
zoomXAfter(z, scrollAmount) ==
    jlimit(minZoomX, maxZoomX,
           IF scrollAmount # 0 THEN Scaled(z, scrollAmount) ELSE z)

\* A vertical zoom that scales like the horizontal one.
zoomYAfterScaled(z, scrollAmount) ==
    jlimit(minZoomY, maxZoomY, IF scrollAmount # 0 THEN Scaled(z, scrollAmount) ELSE z)

\* lines 270-271: the zoomY a wheel event with Command/Ctrl leaves
zoomYAfter(z, scrollAmount) == jlimit(minZoomY, maxZoomY, z + scrollAmount)

\* wheel.deltaY values, in units of 1e-6: small and large, both signs, zero
WheelDeltas == {-20000000, -300000, 0, 300000, 20000000}

\* lines 264-284
mouseWheelMove(deltaY, mod) ==
    /\ pcC = "idle"
    /\ IF mod
          THEN zoomY' = zoomYAfter(zoomY, deltaY) /\ zoomX' = zoomX
          ELSE zoomX' = zoomXAfter(zoomX, deltaY) /\ zoomY' = zoomY
    /\ repaintPending' = TRUE
    /\ scrolls' = scrolls + 1
    /\ lastWheel' = [deltaY |-> deltaY, mod |-> mod, zoomX |-> zoomX, zoomY |-> zoomY]
    /\ UNCHANGED <<queueVars, prodVars, consVars, histVars, width, build, drawnMode,
                   drawnAt, frame, gesture, pushLimit, ghostVars>>

\* The wheel events the exploration feeds: an opening run of equal events
\* without modifier, as the gesture says, then MaxScrolls events of any kind.
RunLength == IF gesture = "out" THEN OutRun ELSE IF gesture = "in" THEN InRun ELSE 0
Fed(deltaY, mod) ==
    /\ scrolls < RunLength + MaxScrolls
    /\ scrolls < RunLength => (~mod /\ deltaY = IF gesture = "out" THEN -300000 ELSE 300000)

MouseWheelMove ==
    \E deltaY \in WheelDeltas, mod \in BOOLEAN : Fed(deltaY, mod) /\ mouseWheelMove(deltaY, mod)

\* A selector that switches to the overview at samplesPerPixel >= 64.
PaintModeAtDecimation(z) ==
    IF z >= rawZoom THEN "RAW"
    ELSE IF z <= rawZoom \div 64 THEN "OVERVIEW"
    ELSE "MID"

\* A selector that draws the raw mode only above one pixel per sample.
PaintModeRawAbove(z) ==
    IF z > rawZoom THEN "RAW"
    ELSE IF z < overviewZoom THEN "OVERVIEW"
    ELSE "MID"

\* lines 76-78, 109, 154 and the label of lines 255-258: the branch paint takes
PaintMode(z) ==
    IF z >= rawZoom THEN "RAW"
    ELSE IF z < overviewZoom THEN "OVERVIEW"
    ELSE "MID"

\* One pixel, and zoomX = 1.0f, in the fixed point of 1e-6.
Micro == rawZoom

\* The getSample calls of a paint: the tier read, its size and write index,
\* and the set of samplesAgo offsets passed.
Reads(tier, size, writeIndex, offsets) ==
    [tier |-> tier, size |-> size, writeIndex |-> writeIndex, samplesAgo |-> offsets]

\* std::ceil of a quotient of positive values
CeilDiv(a, b) == (a + b - 1) \div b

\* lines 89-90
samplesToDraw(w, z) ==
    LET n == CeilDiv(w * Micro, z) + 2
    IN IF n > build.historySize THEN build.historySize ELSE n

\* ZONE 1, lines 86-107: one vertex per raw sample, x = w - i * zoomX.  The
\* vertex carries the data value its y is computed from (v) and the
\* samples-ago offset it stands for (ago).
RawFrame(w, z) ==
    LET n == samplesToDraw(w, z)
        pts == [k \in 1..n |->
                  [x |-> w * Micro - (k - 1) * z,
                   v |-> getSample(historyBuffer, historyWriteIndex, k - 1),
                   ago |-> k - 1]]
    IN [reads |-> Reads("raw", build.historySize, historyWriteIndex, 0..(n - 1)),
        pointsMax |-> <<>>, pointsMin |-> <<>>, path |-> pts, scans |-> <<>>]

\* line 121
pointSpacing(z) == z * build.decimationFactor

\* line 125
OverviewX(w, z, i) == w * Micro - i * pointSpacing(z)

\* lines 123-126: the entries the loop reaches, i < overviewSize, up to the
\* break at the first x < -10.0f (x falls as i grows, so every later entry
\* fails the test too)
OverviewKept(w, z) ==
    {i \in 0..(build.overviewSize - 1) : OverviewX(w, z, i) >= (-10) * Micro}

Reverse(s) == [k \in 1..Len(s) |-> s[Len(s) + 1 - k]]

\* A path that appends the floor in the order it was collected.
FillPathForward(pointsMax, pointsMin) ==
    IF pointsMax = <<>> THEN <<>> ELSE pointsMax \o pointsMin

\* lines 140-146 and 225-240: the roof, then the floor from its last point
\* back to its first
FillPath(pointsMax, pointsMin) ==
    IF pointsMax = <<>> THEN <<>> ELSE pointsMax \o Reverse(pointsMin)

\* ZONE 2, lines 116-152
OverviewFrame(w, z) ==
    LET n == Cardinality(OverviewKept(w, z))
        entry(i) == getSample(overviewBuffer, overviewWriteIndex, i)
        pmax == [k \in 1..n |-> [x |-> OverviewX(w, z, k - 1), v |-> entry(k - 1).max,
                                  ago |-> k - 1]]
        pmin == [k \in 1..n |-> [x |-> OverviewX(w, z, k - 1), v |-> entry(k - 1).min,
                                  ago |-> k - 1]]
    IN [reads |-> Reads("overview", build.overviewSize, overviewWriteIndex,
                        OverviewKept(w, z)),
        pointsMax |-> pmax, pointsMin |-> pmin, path |-> FillPath(pmax, pmin),
        scans |-> <<>>]

\* lines 175-178, samplesPerPixel = 1 / zoomX
iStart(d, z) == (d * Micro) \div z

\* A column that samples one raw value, the first of its range.
iEndNearest(d, z) == iStart(d, z) + 1

\* lines 176-180
iEnd(d, z) ==
    LET e == ((d + 1) * Micro) \div z
    IN IF e <= iStart(d, z) THEN iStart(d, z) + 1 ELSE e

\* A scan without the bounds check of line 190.
ScannedNoBreak(d, z) == iStart(d, z)..(iEnd(d, z) - 1)

\* lines 187-190: the offsets the scan of column d reads, i in [iStart, iEnd)
\* up to the break at the first i >= historySize
Scanned(d, z) == {i \in iStart(d, z)..(iEnd(d, z) - 1) : i < build.historySize}

SetMax(S) == CHOOSE m \in S : \A e \in S : e <= m
SetMin(S) == CHOOSE m \in S : \A e \in S : m <= e

\* lines 184-195: maxV starts at -1.0f, minV at 10.0f
ScanValues(d, z) == {getSample(historyBuffer, historyWriteIndex, i) : i \in Scanned(d, z)}
maxV(d, z) == SetMax(ScanValues(d, z) \cup {-2})
minV(d, z) == SetMin(ScanValues(d, z) \cup {20})

\* A column loop that emits its vertices without the test of line 198.
HasDataAlways(d, z) == TRUE

\* line 198: the column found data
HasData(d, z) == maxV(d, z) >= 0

\* lines 200-221: the roof and floor vertices of the columns that found data
MidVertex(w, z, d, v) == [x |-> (w - d) * Micro, v |-> v, ago |-> iStart(d, z)]
MidRoof(w, z, drawn) == [k \in 1..Len(drawn) |-> MidVertex(w, z, drawn[k], maxV(drawn[k], z))]
MidFloor(w, z, drawn) == [k \in 1..Len(drawn) |-> MidVertex(w, z, drawn[k], minV(drawn[k], z))]

\* ZONE 3, lines 162-249: the pixel columns x = w .. 0, by their distance
\* d = w - x from the right edge; a column that found data emits a roof
\* and a floor vertex at x.
MidColumns(w, z) ==
    LET hasData(d) == HasData(d, z)
    IN SelectSeq([k \in 1..(w + 1) |-> k - 1], hasData)

MidFrameOf(w, z, pmax, pmin) ==
    [reads |-> Reads("raw", build.historySize, historyWriteIndex,
                     UNION {Scanned(d, z) : d \in 0..w}),
     pointsMax |-> pmax, pointsMin |-> pmin, path |-> FillPath(pmax, pmin),
     scans |-> [k \in 1..(w + 1) |-> [iStart |-> iStart(k - 1, z), iEnd |-> iEnd(k - 1, z)]]]

MidFrame(w, z) ==
    MidFrameOf(w, z, MidRoof(w, z, MidColumns(w, z)), MidFloor(w, z, MidColumns(w, z)))

\* lines 78, 109, 154: the branch paint takes
Render(w, z) ==
    IF PaintMode(z) = "RAW" THEN RawFrame(w, z)
    ELSE IF PaintMode(z) = "OVERVIEW" THEN OverviewFrame(w, z)
    ELSE MidFrame(w, z)

\* A paint that closes the open overview window to show the newest samples.
PaintFlushingWindow ==
    /\ pcC = "idle"
    /\ drawnMode' = PaintMode(zoomX)
    /\ drawnAt' = zoomX
    /\ frame' = Render(width, zoomX)
    /\ repaintPending' = FALSE
    /\ currentOverviewCounter' = 0
    /\ currentOverviewMax' = MaxSeed
    /\ currentOverviewMin' = MinSeed
    /\ UNCHANGED <<queueVars, prodVars, consVars, historyBuffer, historyWriteIndex,
                   overviewBuffer, overviewWriteIndex, zoomX, zoomY, width, build,
                   scrolls, lastWheel, gesture, pushLimit, ghostVars>>

\* lines 64-262: the framework paints when the message thread is free (after
\* a repaint request, on first show, on exposure).  The mapping of values to
\* y coordinates (lines 99-100, 130-134, 200-217) is not modelled; a vertex
\* carries the value instead.
Paint ==
    /\ pcC = "idle"
    /\ drawnMode' = PaintMode(zoomX)
    /\ drawnAt' = zoomX
    /\ repaintPending' = FALSE
    /\ frame' = Render(width, zoomX)
    /\ UNCHANGED <<queueVars, prodVars, consVars, histVars, zoomX, zoomY, width, build,
                   scrolls, lastWheel, gesture, pushLimit, ghostVars>>

Producer == ProcessBlock \/ PushCheck \/ PushWrite \/ PushPublish
Consumer == TimerStart \/ LoadRead \/ LoadWrite \/ ReadSlot \/ StoreRead
               \/ AppendHistory \/ TimerFinish

Next == Producer \/ Consumer

Spec == Init /\ [][Next]_vars

\* The editor alone: wheel events and paints from the constructed zoom, the
\* wheel events free or opened by a run of scroll-outs or scroll-ins.
InitZoom ==
    /\ InitAudio
    /\ zoomX = zoomXInit /\ zoomY = zoomYInit
    /\ gesture \in {"free", "out", "in"}

NextZoom == MouseWheelMove \/ Paint

SpecZoom == InitZoom /\ [][NextZoom]_vars

\* paint's mode selection as a function of zoomX: the zoom is drawn from the
\* clamp range, around each threshold and at both ends.
ZoomProbes ==
    {minZoomX, maxZoomX, zoomXInit}
        \cup {t + d : t \in {rawZoom \div 64, overviewZoom, rawZoom}, d \in (-Spread)..Spread}

InitPaint ==
    /\ InitAudio
    /\ zoomX \in ZoomProbes
    /\ zoomY = zoomYInit
    /\ gesture = "free"

NextPaint == Paint

SpecPaint == InitPaint /\ [][NextPaint]_vars

\* Whole sessions: a build is constructed in a window, the audio thread
\* delivers the run's blocks while the timer drains them (one thread's call at
\* a time, and a block only when the queue has room, so that every level is
\* accepted), and then the frame is painted, before and after at most one
\* wheel event (one detent in or out, with or without the modifier).
RenderZooms ==
    {minZoomX, overviewZoom - 1, overviewZoom, 200000, rawZoom - 1, rawZoom, zoomXInit,
     maxZoomX}

RenderRuns ==
    \* the scaled build, fed the ramp up to different fill levels
    {[build |-> Build(historySize, decimationFactor), width |-> editorWidth, zoomX |-> z,
      pushLimit |-> n, stream |-> "ramp"] :
        z \in RenderZooms, n \in {0, historySize - 1, MaxPushes}}
    \* a build with the source's decimationFactor and an overview tier of 128
    \* entries, in windows at the resize limits (PluginEditor.cpp:11)
    \cup {[build |-> Build(8192, 64), width |-> w, zoomX |-> z, pushLimit |-> 0,
           stream |-> "ramp"] :
             w \in {300, 2000},
             z \in {minZoomX, overviewZoom - 1, overviewZoom, rawZoom, maxZoomX}}
    \* raw tier 100, decimation factor 10, 300 blocks of level 0.5, drawn at
    \* samplesPerPixel = 5 in a window 20 pixels wide
    \cup {[build |-> Build(100, 10), width |-> 20, zoomX |-> 200000, pushLimit |-> 300,
           stream |-> "steady"]}

InitRender ==
    \E r \in RenderRuns :
        /\ Constructed(r.build, r.width, r.pushLimit)
        /\ stream = r.stream
        /\ zoomX = r.zoomX /\ zoomY = zoomYInit
        /\ gesture = "free"

\* pushToFifo's own test: the slot after the write index is free
HasRoom == NextWrite(fifoWriteIndex) # fifoReadIndex

\* every block of the run was delivered and drained
Drained ==
    /\ produced = pushLimit
    /\ pcP = "idle" /\ pcC = "idle"
    /\ fifoReadIndex = fifoWriteIndex

RenderFeed ==
    \/ pcC = "idle" /\ HasRoom /\ ProcessBlock
    \/ pcC = "idle" /\ (PushCheck \/ PushWrite \/ PushPublish)
    \/ pcP = "idle" /\ Consumer

RenderView ==
    /\ Drained
    /\ \/ Paint
       \/ scrolls = 0 /\ \E deltaY \in {-300000, 300000}, mod \in BOOLEAN :
                           mouseWheelMove(deltaY, mod)

NextRender == RenderFeed \/ RenderView

SpecRender == InitRender /\ [][NextRender]_vars

\* ================================================================ claims
Min2(a, b) == IF a < b THEN a ELSE b

\* Slots published by the producer and not yet released by the consumer.
UnreadCount == (fifoWriteIndex - fifoReadIndex + fifoSize) % fifoSize
UnreadSlots == {(fifoReadIndex + k) % fifoSize : k \in 0..(UnreadCount - 1)}
QueueFull == UnreadCount = fifoSize - 1

IsPrefix(s, t) == Len(s) <= Len(t) /\ \A i \in 1..Len(s) : s[i] = t[i]
Ramp(n) == [i \in 1..n |-> i - 1]
SeqMin(s) == CHOOSE m \in {s[i] : i \in 1..Len(s)} : \A i \in 1..Len(s) : m <= s[i]
SeqMax(s) == CHOOSE m \in {s[i] : i \in 1..Len(s)} : \A i \in 1..Len(s) : m >= s[i]

\* C1: in every interleaving of pushes and drain-loop pops, the values popped
\* are a prefix of the values accepted by the producer, in the same order
\* (nothing popped twice, skipped or reordered).
C1_FifoOrder == IsPrefix(popped, accepted)

\* The ring has wrapped, and a sample was dropped on the way.
C1_Witness ==
    /\ stream = "ramp" /\ Len(popped) > fifoSize
    /\ popped # Ramp(Len(popped))

\* C2: a push that finds the queue full drops the sample and returns at once,
\* leaving fifoWriteIndex and the buffer as they were; and no step of any
\* thread changes a slot that is published and not yet popped.
C2_DropWhenFull ==
    [][ /\ (pcP = "check" /\ pcP' # "check" /\ QueueFull)
            => /\ pcP' = "idle" /\ lastDrop'
               /\ fifoWriteIndex' = fifoWriteIndex
               /\ fifoBuffer' = fifoBuffer
               /\ accepted' = accepted
        /\ \A i \in UnreadSlots : fifoBuffer'[i] = fifoBuffer[i] ]_vars

\* A push has just been dropped on a full queue of distinct values.
C2_Witness ==
    /\ lastDrop /\ pcP = "idle" /\ QueueFull /\ stream = "ramp"
    /\ produced = Len(accepted) + 1

\* C3: when the consumer is about to read fifoBuffer[currentRead] (line 33),
\* that slot is published and not yet released, and the producer is not
\* about to write it.
C3_NoConcurrentSlotAccess ==
    pcC = "readSlot" =>
        /\ currentRead \in UnreadSlots
        /\ ~(pcP = "write" /\ pWrite = currentRead)
        /\ ~Racing

\* Both threads are in the middle of a slot access, on different slots.
C3_Witness == pcC = "readSlot" /\ pcP = "write" /\ pWrite # currentRead

\* C4: a tick never pops more than was published, so without further pushes
\* its loop ends after at most the queued samples; when the loop has ended,
\* every sample accepted before the tick started has been appended; and if
\* no push was published during the tick, the queue is empty and the history
\* ends with the samples that were queued at the tick's start, in queue order.
C4_CompleteDrain ==
    /\ pcC # "idle" => Len(popped) <= Len(accepted)
    /\ pcC = "finish" =>
        /\ Len(appended) >= tickAccepted
        /\ Len(accepted) = tickAccepted =>
              LET q == SubSeq(accepted, tickPopped + 1, tickAccepted)
                  n == Len(q)
              IN /\ fifoReadIndex = fifoWriteIndex
                 /\ Len(appended) = tickPopped + n
                 /\ SubSeq(appended, tickPopped + 1, tickPopped + n) = q
                 /\ \A k \in 0..(Min2(n, historySize) - 1) :
                       getSample(historyBuffer, historyWriteIndex, k) = q[n - k]

\* A tick without concurrent pushes that drained two samples.
C4_Witness ==
    /\ pcC = "finish" /\ Len(accepted) = tickAccepted
    /\ Len(appended) >= tickPopped + 2

\* C5: a tick calls repaint() exactly when it popped at least one sample;
\* while a tick has popped nothing, no step changes the history state.
C5_RepaintIffPopped ==
    [][ /\ (pcC = "finish" /\ pcC' = "idle")
            => /\ lastTickRepaint' <=> (Len(popped) > tickPopped)
               /\ (Len(popped) > tickPopped) => repaintPending'
               /\ (Len(popped) = tickPopped) => (repaintPending' = repaintPending)
        /\ (Len(popped') = tickPopped') => UNCHANGED histVars ]_vars

\* After ticks that appended data, a tick that found the queue empty has
\* ended without a redraw request.
C5_Witness ==
    /\ pcC = "idle" /\ ~lastTickRepaint /\ Len(popped) = tickPopped
    /\ Len(appended) > 0

\* C6: after N > historySize samples 0..N-1 have been appended,
\* getSample(historyBuffer, historyWriteIndex, k) is N-1-k for every k in
\* [0, historySize), and nothing older is left in the buffer; for any
\* appended values, samplesAgo k names the k-th most recent one.
C6_BoundedRetention ==
    LET T == Len(appended) IN
    /\ (T > historySize /\ appended = Ramp(T)) =>
          /\ \A k \in 0..(historySize - 1) :
                getSample(historyBuffer, historyWriteIndex, k) = T - 1 - k
          /\ \A i \in DOMAIN historyBuffer : historyBuffer[i] >= T - historySize
    /\ \A k \in 0..(Min2(T, historySize) - 1) :
          getSample(historyBuffer, historyWriteIndex, k) = appended[T - k]

\* More than historySize distinct samples went through the drain loop.
C6_Witness ==
    /\ Len(appended) > historySize /\ appended = Ramp(Len(appended))

\* The raw samples of window k, in arrival order.
Window(k) == SubSeq(appended, k * decimationFactor + 1, (k + 1) * decimationFactor)

\* C7: for samples in [0,1], every overview entry still in the ring holds
\* the minimum and the maximum of the decimationFactor raw samples of its own
\* window [k*D, (k+1)*D), the first window after construction included.
C7_DecimationCorrect ==
    (\A i \in 1..Len(appended) : appended[i] \in 0..2) =>
        \A k \in 0..(committed - 1) :
            (k >= committed - overviewSize) =>
                overviewBuffer[k % overviewSize]
                    = [min |-> SeqMin(Window(k)), max |-> SeqMax(Window(k))]

\* The overview ring has wrapped; it holds a window of ones and a window
\* with both levels.
C7_Witness ==
    /\ committed > overviewSize
    /\ \A i \in 1..Len(appended) : appended[i] \in 0..2
    /\ \E s \in DOMAIN overviewBuffer : overviewBuffer[s].min = 2
    /\ \E s \in DOMAIN overviewBuffer : overviewBuffer[s].min < overviewBuffer[s].max

\* C8: the samples appended so far are decimationFactor times the entries
\* committed plus the open window's counter, which stays in [0, D): the
\* overview tier lags the raw tier by at most D-1 samples.
C8_OverviewLag ==
    /\ Len(appended) = decimationFactor * committed + currentOverviewCounter
    /\ 0 <= currentOverviewCounter
    /\ currentOverviewCounter < decimationFactor
    /\ Len(appended) - decimationFactor * committed <= decimationFactor - 1

\* The stream has stopped in the middle of a window, after a commit.
C8_Witness ==
    /\ committed >= 1 /\ currentOverviewCounter = decimationFactor - 1
    /\ produced = MaxPushes /\ pcP = "idle" /\ pcC = "idle"
    /\ fifoReadIndex = fifoWriteIndex

\* C9: after any wheel events zoomX is in [minZoomX, maxZoomX] (so never zero
\* or negative) and zoomY in [minZoomY, maxZoomY]; an event that pushes
\* further against a bound the value is at leaves it exactly at that bound.
C9_ZoomClamp ==
    /\ minZoomX <= zoomX /\ zoomX <= maxZoomX /\ zoomX > 0
    /\ minZoomY <= zoomY /\ zoomY <= maxZoomY
    /\ scrolls > 0 =>
          /\ (~lastWheel.mod /\ lastWheel.deltaY > 0 /\ lastWheel.zoomX = maxZoomX)
                => zoomX = maxZoomX
          /\ (~lastWheel.mod /\ lastWheel.deltaY < 0 /\ lastWheel.zoomX = minZoomX)
                => zoomX = minZoomX
          /\ (lastWheel.mod /\ lastWheel.deltaY > 0 /\ lastWheel.zoomY = maxZoomY)
                => zoomY = maxZoomY
          /\ (lastWheel.mod /\ lastWheel.deltaY < 0 /\ lastWheel.zoomY = minZoomY)
                => zoomY = minZoomY

\* zoomX was at its minimum and one more scroll-out has left it there.
C9_Witness ==
    /\ scrolls > OutRun /\ gesture = "out"
    /\ ~lastWheel.mod /\ lastWheel.deltaY < 0 /\ lastWheel.zoomX = minZoomX
    /\ zoomX = minZoomX

\* C10 as stated: paint draws the overview exactly when samplesPerPixel =
\* 1/zoomX >= 64 (zoomX <= 1/64 = 15625e-6), and the peak/envelope mode
\* above zoomX = 1/64 and below 1.
C10_SwitchAtDecimation ==
    drawnMode # "none" =>
        /\ (drawnMode = "OVERVIEW") <=> (drawnAt <= rawZoom \div 64)
        /\ (drawnAt > rawZoom \div 64 /\ drawnAt < rawZoom) => drawnMode = "MID"

\* C10, amended: paint draws the overview exactly when zoomX < 0.05
\* (samplesPerPixel > 20) and the peak/envelope mode for 0.05 <= zoomX < 1:
\* the switch is at zoomX = 0.05, not at 1/64.
C10_SwitchAtOverviewZoom ==
    drawnMode # "none" =>
        /\ (drawnMode = "OVERVIEW") <=> (drawnAt < rawZoom \div 20)
        /\ (drawnMode = "MID") <=> (drawnAt >= rawZoom \div 20 /\ drawnAt < rawZoom)

\* After scroll-outs from the constructed zoom, the overview was drawn at a
\* zoomX above 1/64.
C10_Witness ==
    /\ drawnMode = "OVERVIEW" /\ drawnAt = zoomX
    /\ drawnAt > rawZoom \div 64
    /\ gesture = "out"

\* The branch a frame was drawn by, read off the frame's shape: the raw
\* branch strokes a line and builds no envelope, the overview branch reads the
\* overview tier, the mid branch scans pixel columns.
FrameBranch ==
    IF frame.reads.tier = "overview" THEN "OVERVIEW"
    ELSE IF frame.scans # <<>> THEN "MID"
    ELSE IF frame.reads.tier = "raw" THEN "RAW"
    ELSE "none"

\* C11 as stated: paint draws the raw (interpolated) mode only for zoomX > 1
\* (samplesPerPixel < 1); at zoomX = 1 it draws the peak/envelope mode; and
\* every paint takes exactly one of the three branches.
C11_RawAboveOne ==
    drawnMode # "none" =>
        /\ drawnMode = "RAW" => drawnAt > rawZoom
        /\ drawnAt = rawZoom => drawnMode = "MID"
        /\ drawnMode \in {"RAW", "MID", "OVERVIEW"} /\ FrameBranch = drawnMode

\* C11, amended: paint draws the raw mode exactly when zoomX >= 1
\* (samplesPerPixel <= 1), so at zoomX = 1 too; the peak/envelope mode
\* exactly when 0.05 <= zoomX < 1; and every paint takes exactly one of the
\* three branches, the one its label names.
C11_RawFromOne ==
    drawnMode # "none" =>
        /\ (drawnMode = "RAW") <=> (drawnAt >= rawZoom)
        /\ drawnAt = rawZoom => drawnMode = "RAW"
        /\ (drawnMode = "MID") <=> (drawnAt >= overviewZoom /\ drawnAt < rawZoom)
        /\ drawnMode \in {"RAW", "MID", "OVERVIEW"} /\ FrameBranch = drawnMode

\* A frame was painted at zoomX = 1.0 exactly, by the raw branch.
C11_Witness ==
    /\ drawnAt = rawZoom /\ zoomX = rawZoom
    /\ drawnMode = "RAW" /\ FrameBranch = "RAW"

\* The getSample calls the last paint made.
ReadCount == Cardinality(frame.reads.samplesAgo)

\* C12: in overview mode the number of overview entries one paint reads is
\* bounded by the viewport width alone: when a frame is repainted in the same
\* window at a smaller zoomX, both times in overview mode, the paint reads no
\* more entries than before.
C12_OverviewCostBounded ==
    [][ (/\ drawnMode = "OVERVIEW" /\ drawnMode' = "OVERVIEW"
         /\ width' = width /\ build' = build
         /\ drawnAt' < drawnAt)
            => Cardinality(frame'.reads.samplesAgo) <= ReadCount ]_vars

\* Steps of the three handlers, told apart by what only they touch: a paint
\* redraws the frame or clears the repaint request, a wheel event is counted,
\* a tick moves the timer callback's position.
PaintStep ==
    \/ frame' # frame \/ drawnAt' # drawnAt \/ drawnMode' # drawnMode
    \/ repaintPending /\ ~repaintPending'
WheelStep == scrolls' # scrolls
TimerStep == pcC' # pcC

\* C13: paint and mouseWheelMove leave the two tiers, their write indices,
\* the decimation accumulator and the queue (indices and slots) unchanged;
\* timerCallback leaves zoomX and zoomY unchanged; and the history state
\* changes only in the append of timerCallback's drain loop.
C13_HistoryOwnership ==
    [][ /\ (PaintStep \/ WheelStep) => UNCHANGED <<histVars, queueVars>>
        /\ TimerStep => UNCHANGED <<zoomX, zoomY>>
        /\ (histVars' # histVars) => (pcC = "append" /\ TimerStep) ]_vars

\* Samples were appended, the open window holds one of them, and the frame
\* was painted again after a wheel event changed the zoom.
C13_Witness ==
    /\ Len(appended) > 0 /\ currentOverviewCounter > 0
    /\ scrolls = 1 /\ lastWheel.zoomX # zoomX
    /\ drawnMode # "none" /\ drawnAt = zoomX

\* C14: every getSample call of a paint, in any mode, for any zoomX of the
\* clamp range, any window width and any write index, passes a samplesAgo in
\* [0, tier size) and dereferences a slot in [0, buffer size).
C14_IndexSafety ==
    drawnMode # "none" =>
        LET r == frame.reads IN
        /\ r.size = IF r.tier = "overview" THEN build.overviewSize ELSE build.historySize
        /\ r.writeIndex \in 0..(r.size - 1)
        /\ r.samplesAgo # {}
        /\ \A i \in r.samplesAgo :
              /\ 0 <= i /\ i < r.size
              /\ PhysicalIndex(r.size, r.writeIndex, i) \in 0..(r.size - 1)

\* A mid-mode frame 2000 pixels wide whose columns reach past the raw tier:
\* the scan stopped at the tier's last offset.
C14_Witness ==
    /\ drawnMode = "MID" /\ width = 2000
    /\ frame.scans[Len(frame.scans)].iEnd > build.historySize
    /\ (build.historySize - 1) \in frame.reads.samplesAgo

\* The run of raw tier 100 and decimation factor 10 fed 300 blocks of level
\* 0.5, in a window 20 pixels wide at samplesPerPixel = 5.
SteadyRun ==
    /\ stream = "steady" /\ pushLimit = 300
    /\ build = Build(100, 10) /\ width = 20

\* C15: in that run every committed overview entry has min = max = 0.5 (the
\* level 1 of the model's unit); once the 300 samples are pushed and drained,
\* exactly 30 entries have been committed and getSample(raw, 0) is 0.5; and
\* a frame painted then at samplesPerPixel = 5 is drawn in peak/envelope mode
\* with exactly 20 roof and 20 floor vertices, each from the value 0.5.
C15_Scenario ==
    SteadyRun =>
        /\ \A k \in 0..(Min2(committed, build.overviewSize) - 1) :
              getSample(overviewBuffer, overviewWriteIndex, k) = [min |-> 1, max |-> 1]
        /\ Drained =>
              /\ Len(accepted) = 300 /\ Len(appended) = 300
              /\ committed = 30
              /\ getSample(historyBuffer, historyWriteIndex, 0) = 1
              /\ (drawnMode # "none" /\ drawnAt = 200000) =>
                    /\ drawnMode = "MID"
                    /\ Len(frame.pointsMax) = 20 /\ Len(frame.pointsMin) = 20
                    /\ \A k \in 1..20 : frame.pointsMax[k].v = 1 /\ frame.pointsMin[k].v = 1

\* The 300 samples are in, 30 entries committed, and the frame was painted at
\* samplesPerPixel = 5.
C15_Witness ==
    /\ SteadyRun /\ Drained /\ committed = 30
    /\ drawnMode = "MID" /\ drawnAt = 200000 /\ zoomX = 200000
    /\ Len(frame.pointsMax) = 20

\* C16: in each iteration of the drain loop the payload fifoBuffer[currentRead]
\* is read after fifoWriteIndex was loaded (the loaded value names a slot
\* published beyond currentRead) and before the slot is released;
\* fifoReadIndex changes only in the store after that read, to
\* (currentRead + 1) mod fifoSize, one slot further; and no step of the
\* consumer changes fifoWriteIndex or fifoBuffer.
C16_ConsumerHandshake ==
    [][ /\ pcC = "readSlot" =>
              /\ currentRead = fifoReadIndex
              /\ currentWrite \in {(currentRead + k) % fifoSize : k \in 1..UnreadCount}
        /\ (popped' # popped) =>
              /\ pcC = "readSlot" /\ fifoReadIndex' = fifoReadIndex
              /\ Len(popped') = Len(popped) + 1
        /\ (fifoReadIndex' # fifoReadIndex) =>
              /\ pcC = "storeRead"
              /\ Len(popped) = Len(appended) + 1 /\ popped[Len(popped)] = val
              /\ fifoReadIndex' = (currentRead + 1) % fifoSize
              /\ fifoReadIndex' = (fifoReadIndex + 1) % fifoSize
        /\ TimerStep => (fifoWriteIndex' = fifoWriteIndex /\ fifoBuffer' = fifoBuffer) ]_vars

\* The consumer has read a payload and released its slot, the read index
\* wrapping to slot 0, while the producer is in the middle of a push.
C16_Witness ==
    /\ pcC = "append" /\ fifoReadIndex = 0 /\ currentRead = fifoSize - 1
    /\ Len(popped) = Len(appended) + 1 /\ Len(popped) >= fifoSize
    /\ pcP = "publish"

\* saturation of v to [lo, hi], written without the library call
Saturate(lo, hi, v) == IF v > hi THEN hi ELSE IF v < lo THEN lo ELSE v

\* C17: a mouseWheelMove with Command/Ctrl held changes only zoomY, to
\* clamp(zoomY + deltaY), and leaves zoomX as it was; without the modifier
\* it leaves zoomY as it was and takes zoomX to clamp(zoomX * 1.1) for
\* deltaY > 0, clamp(zoomX * 0.9) for deltaY < 0 and clamp(zoomX) for
\* deltaY = 0.
C17_ScrollAxis ==
    [][ WheelStep =>
          LET e == lastWheel' IN
          /\ e.zoomX = zoomX /\ e.zoomY = zoomY
          /\ IF e.mod
                THEN /\ zoomX' = zoomX
                     /\ zoomY' = Saturate(minZoomY, maxZoomY, zoomY + e.deltaY)
                ELSE /\ zoomY' = zoomY
                     /\ zoomX' = Saturate(minZoomX, maxZoomX,
                                    IF e.deltaY > 0 THEN (zoomX * 11) \div 10
                                    ELSE IF e.deltaY < 0 THEN (zoomX * 9) \div 10
                                    ELSE zoomX) ]_vars

\* After a scroll without modifier has moved zoomX, a scroll with the
\* modifier has moved zoomY and left that zoomX in place.
C17_Witness ==
    /\ scrolls >= 2 /\ lastWheel.mod /\ lastWheel.deltaY = 300000
    /\ zoomY = lastWheel.zoomY + 300000
    /\ zoomX = lastWheel.zoomX /\ zoomX # zoomXInit

\* Most-recent-first, right to left: x falls and the samples-ago offset
\* grows from each vertex to the next.
Leftward(s) == \A k \in 2..Len(s) : s[k].x < s[k - 1].x /\ s[k].ago > s[k - 1].ago

\* C18: in every render mode the roof vertices are emitted most-recent-first
\* with strictly decreasing x, each standing for a larger samples-ago offset
\* than the one before; in the two envelope modes the floor has the same x
\* values and is appended in reverse order, so that the path runs left
\* through each x once and comes back through each x once.
C18_TraversalDirection ==
    drawnMode # "none" =>
        IF drawnMode = "RAW"
            THEN /\ frame.path # <<>> /\ frame.path[1].ago = 0
                 /\ Leftward(frame.path)
            ELSE LET n == Len(frame.pointsMax) IN
                 /\ Leftward(frame.pointsMax)
                 /\ n > 0 => frame.pointsMax[1].ago = 0
                 /\ Len(frame.pointsMin) = n
                 /\ \A k \in 1..n : /\ frame.pointsMin[k].x = frame.pointsMax[k].x
                                    /\ frame.pointsMin[k].ago = frame.pointsMax[k].ago
                 /\ Len(frame.path) = 2 * n
                 /\ \A k \in 1..n : /\ frame.path[k] = frame.pointsMax[k]
                                    /\ frame.path[n + k] = frame.pointsMin[n + 1 - k]
                 /\ \A k \in (n + 2)..(2 * n) : frame.path[k].x > frame.path[k - 1].x

\* An overview frame of several entries whose floor differs from its roof:
\* the path ends on the floor's first (rightmost) point.
C18_Witness ==
    /\ drawnMode = "OVERVIEW" /\ Len(frame.pointsMax) >= 2
    /\ frame.pointsMin[1].v # frame.pointsMax[1].v
    /\ frame.path[Len(frame.path)] = frame.pointsMin[1]
    /\ frame.path[Len(frame.pointsMax) + 1].x < frame.path[1].x

\* C19: after T samples appended by timerCallback historyWriteIndex =
\* T mod historySize and overviewWriteIndex = floor(T / decimationFactor)
\* mod overviewSize, both within their tier; and the fifoReadIndex the
\* consumer stores is always within [0, fifoSize).
C19_RingIndices ==
    LET T == Len(appended) IN
    /\ historyWriteIndex = T % historySize
    /\ overviewWriteIndex = (T \div decimationFactor) % overviewSize
    /\ 0 <= historyWriteIndex /\ historyWriteIndex < historySize
    /\ 0 <= overviewWriteIndex /\ overviewWriteIndex < overviewSize
    /\ 0 <= fifoReadIndex /\ fifoReadIndex < fifoSize
    /\ pcC = "append" => (0 <= currentRead /\ currentRead < fifoSize)

\* Both tiers and the queue have wrapped: more samples appended than the raw
\* tier holds, more windows committed than the overview tier holds, and the
\* read index back at slot 0.
C19_Witness ==
    /\ Len(appended) > historySize
    /\ Len(appended) \div decimationFactor > overviewSize
    /\ Len(popped) > fifoSize /\ fifoReadIndex = 0
    /\ historyWriteIndex # 0 /\ overviewWriteIndex # 0

\* The number of samples the scan of the k-th column of the last frame
\* reads: its range [iStart, iEnd) up to the end of the raw tier.
ScanSize(k) ==
    LET e == Min2(frame.scans[k].iEnd, build.historySize)
    IN IF e > frame.scans[k].iStart THEN e - frame.scans[k].iStart ELSE 0

\* The samples read by the scans of columns lo .. hi, counted once per scan.
RECURSIVE ScanTotal(_, _)
ScanTotal(lo, hi) ==
    IF lo > hi THEN 0
    ELSE IF lo = hi THEN ScanSize(lo)
    ELSE ScanTotal(lo, (lo + hi) \div 2) + ScanTotal((lo + hi) \div 2 + 1, hi)

\* C20: in the mid-range mode the ranges [iStart, iEnd) of consecutive pixel
\* columns are non-empty and contiguous, the first starting at offset 0 and
\* each ending where the next one starts, so that every raw sample from
\* offset 0 to the last visible offset is scanned by exactly one column
\* (the offsets read are all of 0 .. last, and the scans together read as
\* many samples as there are offsets, so none is read by two of them).
C20_PeakCoverage ==
    drawnMode = "MID" =>
        LET n == Len(frame.scans)
            last == Min2(frame.scans[n].iEnd, build.historySize) - 1
        IN /\ n = width + 1
           /\ frame.scans[1].iStart = 0
           /\ \A k \in 1..n : frame.scans[k].iStart < frame.scans[k].iEnd
           /\ \A k \in 1..(n - 1) : frame.scans[k].iEnd = frame.scans[k + 1].iStart
           /\ frame.reads.samplesAgo = 0..last
           /\ ScanTotal(1, n) = Cardinality(frame.reads.samplesAgo)

\* A mid-mode frame at a samplesPerPixel that is not a whole number: columns
\* of different widths, several samples each, reaching the end of the tier.
C20_Witness ==
    /\ drawnMode = "MID" /\ width >= 300
    /\ \E k \in 1..(Len(frame.scans) - 1) :
          /\ frame.scans[k].iEnd - frame.scans[k].iStart >= 2
          /\ frame.scans[k + 1].iEnd - frame.scans[k + 1].iStart >
                frame.scans[k].iEnd - frame.scans[k].iStart
    /\ frame.scans[Len(frame.scans)].iEnd > build.historySize

====
